---- MODULE Spec2Model ----
(***************************************************************************)
(* LinketConnect: the profile store (profile-service.ts over the Supabase  *)
(* tables user_profiles / profile_links, and its in-memory fallback), the  *)
(* active-profile enforcement, and the client-side autosave editors.       *)
(***************************************************************************)
EXTENDS Integers, Sequences, FiniteSets, TLC

(***************************************************************************)
(* Bounds of the model.                                                    *)
(***************************************************************************)
MaxProfiles == 3
StoreCap == 2
MaxLinkId == 2
StoreLinkCap == 1
MaxLinks == 1
MaxCalls == 2
MaxEdits == 3
MaxSends == 3
MaxFields == 2
MaxLinkList == 2
MaxDeleteProfiles == 3
MaxRepairProfiles == 3
LinkIdCap == 4

Users == {"A", "B"}

\* payload.id === undefined
NoId == 0
\* an id that gen_random_uuid()/randomId() never hands out in the run
GhostId == MaxProfiles + 1

(***************************************************************************)
(* Strings are sequences of characters, so that trim() and toLowerCase()   *)
(* do what the code does.                                                  *)
(***************************************************************************)
RECURSIVE TrimStart(_)
TrimStart(s) ==
  IF s # << >> /\ Head(s) = " " THEN TrimStart(Tail(s)) ELSE s

RECURSIVE TrimEnd(_)
TrimEnd(s) ==
  IF s # << >> /\ s[Len(s)] = " " THEN TrimEnd(SubSeq(s, 1, Len(s) - 1)) ELSE s

Trim(s) == TrimEnd(TrimStart(s))

ToLowerCase(s) == [i \in 1..Len(s) |-> IF s[i] = "A" THEN "a" ELSE IF s[i] = "B" THEN "b" ELSE s[i]]

normaliseHandle(handle) == ToLowerCase(Trim(handle))

RawHandles == { <<"a">>, <<" ", "B">>, <<" ">> }
RawNames == { <<"n">>, <<" ">> }
RawTitles == { <<"t">> }

(***************************************************************************)
(* Payloads of saveProfileForUser.                                         *)
(***************************************************************************)
PayloadLink == [id : {NoId}, title : RawTitles]

PayloadLinks == UNION { [1..n -> PayloadLink] : n \in 0..MaxLinks }

VARIABLES
  SUPABASE_ENABLED,
  user_profiles,
  profile_links,
  memoryProfiles,
  memoryAccounts,
  nextId,
  nextLinkId,
  calls

storeVars == <<SUPABASE_ENABLED, user_profiles, profile_links, memoryProfiles, memoryAccounts,
               nextId, nextLinkId, calls>>

\* one record per mounted editor component: its state, its refs, its timer,
\* its requests in flight and what the server holds for it
VARIABLES
  PublicProfileEditorPage,
  LeadFormBuilder,
  VCardContent,
  PublicLeadForm

uiVars == <<PublicProfileEditorPage, LeadFormBuilder, VCardContent, PublicLeadForm>>

vars == <<storeVars, uiVars>>

(***************************************************************************)
(* The store as one value: the two tables, the in-memory map and the id    *)
(* generators.  Timestamps are kept up to their order (the code only ever  *)
(* compares them): Now is later than every stored updated_at, and Settle   *)
(* renumbers the stored values 1..k in the same order.                     *)
(***************************************************************************)
World ==
  [up |-> user_profiles, pl |-> profile_links, mem |-> memoryProfiles, acc |-> memoryAccounts,
   nextId |-> nextId, nextLinkId |-> nextLinkId]

Times(w) ==
  { w.up[id].updated_at : id \in DOMAIN w.up } \cup
  UNION { { w.mem[u][i].updated_at : i \in 1..Len(w.mem[u]) } : u \in DOMAIN w.mem }

\* new Date().toISOString()
Now(w) == Cardinality(Times(w)) + 1

Settle(w) ==
  LET T == Times(w)
      rank(t) == Cardinality({ x \in T : x <= t })
  IN [w EXCEPT !.up = [id \in DOMAIN w.up |-> [w.up[id] EXCEPT !.updated_at = rank(@)]],
               !.mem = [u \in DOMAIN w.mem |->
                          [i \in 1..Len(w.mem[u]) |-> [w.mem[u][i] EXCEPT !.updated_at = rank(@)]]]]

Max(S) == CHOOSE x \in S : \A y \in S : y <= x

RowsOf(up, u) == { id \in DOMAIN up : up[id].user_id = u }

ActiveOf(up, u) == { id \in RowsOf(up, u) : up[id].is_active }

LinksOfProfile(pl, pid) == { l \in pl : l.profile_id = pid }

\* constraint user_profiles_handle_unique unique (user_id, handle)
user_profiles_handle_unique(up, u, self, h) ==
  \A id \in RowsOf(up, u) : id # self => up[id].handle # h

EmptyPayload == [id |-> NoId, name |-> << >>, handle |-> << >>, links |-> << >>, active |-> FALSE]

NoRet == [id |-> NoId, user_id |-> "", is_active |-> FALSE, links |-> << >>]

Idle ==
  [op |-> "idle", user |-> "", id |-> NoId, payload |-> EmptyPayload, pc |-> "idle",
   pid |-> NoId, target |-> NoId, after |-> "idle", ok |-> "none", err |-> "",
   ret |-> NoRet, seen |-> -1, total |-> -1, cap |-> MaxProfiles, linkCap |-> MaxLinkId]

NewCall(op, u, id, payload) ==
  [Idle EXCEPT !.op = op, !.user = u, !.id = id, !.payload = payload,
               !.pc = "start", !.ok = "pending"]

Throw(f, msg) == [f EXCEPT !.pc = "done", !.ok = "error", !.err = msg]

\* links of a profile sorted with byOrder; rows of one insert share their
\* created_at, so equal order_index leaves the order to the id here
RECURSIVE SortLinks(_)
SortLinks(S) ==
  IF S = {} THEN << >>
  ELSE LET m == CHOOSE l \in S : \A k \in S :
                   \/ l.order_index < k.order_index
                   \/ (l.order_index = k.order_index /\ l.id <= k.id)
       IN <<m>> \o SortLinks(S \ {m})

byOrder(S) == SortLinks(S)

(***************************************************************************)
(* fetchProfileWithLinksById: select by id alone (no user_id filter).      *)
(***************************************************************************)
fetchProfileWithLinksById(w, pid) ==
  IF pid \in DOMAIN w.up
    THEN [id |-> pid, user_id |-> w.up[pid].user_id, is_active |-> w.up[pid].is_active,
          links |-> byOrder(LinksOfProfile(w.pl, pid))]
    ELSE NoRet

(***************************************************************************)
(* profile-service.ts with SUPABASE_ENABLED: every awaited query is one    *)
(* step of the call.  A step is a set of outcomes [w, f]: the store and    *)
(* the call's frame after the query.                                       *)
(***************************************************************************)
Out(w, f) == [w |-> w, f |-> f]

linkTitle(link) == IF Trim(link.title) # << >> THEN Trim(link.title) ELSE <<"L">>

\* ensureSingleActiveProfile, first query: update({is_active: false}).eq(user_id)
DemoteAll(up, u) ==
  [id \in DOMAIN up |-> IF up[id].user_id = u THEN [up[id] EXCEPT !.is_active = FALSE] ELSE up[id]]

\* ensureSingleActiveProfile, second query:
\* update({is_active: true, updated_at}).eq(id).eq(user_id)
Promote(up, u, pid, now) ==
  [id \in DOMAIN up |->
     IF id = pid /\ up[id].user_id = u
       THEN [up[id] EXCEPT !.is_active = TRUE, !.updated_at = now]
       ELSE up[id]]

\* what a call does once its activation part is over
AfterEnsure(w, f) ==
  IF f.after = "fetch" THEN [f EXCEPT !.pc = "fetch"]
  ELSE [f EXCEPT !.pc = "done", !.ok = "ok"]

StepDemote(w, f) ==
  { Out([w EXCEPT !.up = DemoteAll(w.up, f.user)], [f EXCEPT !.pc = "promote"]) }

StepPromote(w, f) ==
  { Out(Settle([w EXCEPT !.up = Promote(w.up, f.user, f.target, Now(w))]), AfterEnsure(w, f)) }

\* a faulty first query of the repair: finding the active profile, it goes on
\* to the activation with no profile selected instead of returning
StepSelActiveGoesOn(w, f) ==
  IF Cardinality(ActiveOf(w.up, f.user)) = 1
    THEN { Out(w, [f EXCEPT !.pc = "demote", !.target = NoId]) }
    ELSE { Out(w, [f EXCEPT !.pc = "selFirst"]) }

\* ensureHasActiveProfile, first query: select id where user_id and is_active,
\* maybeSingle(); several rows give PGRST116, which the code lets pass with
\* data = null
StepSelActive(w, f) ==
  IF Cardinality(ActiveOf(w.up, f.user)) = 1
    THEN { Out(w, AfterEnsure(w, f)) }
    ELSE { Out(w, [f EXCEPT !.pc = "selFirst"]) }

\* ensureHasActiveProfile, second query: order by updated_at desc limit 1
StepSelFirst(w, f) ==
  LET mine == RowsOf(w.up, f.user) IN
  IF mine = {} THEN { Out(w, AfterEnsure(w, f)) }
  ELSE { Out(w, [f EXCEPT !.pc = "demote", !.target = id]) :
           id \in { i \in mine : \A j \in mine : w.up[j].updated_at <= w.up[i].updated_at } }

StepFetch(w, f) ==
  LET profile == fetchProfileWithLinksById(w, f.pid) IN
  IF profile = NoRet
    THEN { Out(w, Throw(f, IF f.op = "save" THEN "Profile not found after save" ELSE "Profile not found")) }
    ELSE { Out(w, [f EXCEPT !.pc = "done", !.ok = "ok", !.ret = profile]) }

\* a faulty start of saveProfileForUser that checks the name only
StepSaveStartSkipsHandle(w, f) ==
  IF Trim(f.payload.name) = << >> THEN { Out(w, Throw(f, "Profile name is required")) }
  ELSE { Out(w, [f EXCEPT !.pc = "write"]) }

\* saveProfileForUser up to its first query
StepSaveStart(w, f) ==
  IF Trim(f.payload.name) = << >> THEN { Out(w, Throw(f, "Profile name is required")) }
  ELSE IF normaliseHandle(f.payload.handle) = << >> THEN { Out(w, Throw(f, "Handle is required")) }
  ELSE { Out(w, [f EXCEPT !.pc = "write"]) }

\* insert(...) or update(...).eq(id).eq(user_id) of the profile row
StepSaveWrite(w, f) ==
  LET handle == normaliseHandle(f.payload.handle)
      name == Trim(f.payload.name)
  IN
  IF f.payload.id = NoId
    THEN IF ~user_profiles_handle_unique(w.up, f.user, NoId, handle)
           THEN { Out(w, Throw(f, "duplicate key value violates unique constraint")) }
         ELSE IF w.nextId > f.cap THEN {}
         ELSE LET row == [user_id |-> f.user, name |-> name, handle |-> handle,
                          is_active |-> FALSE, updated_at |-> Now(w)]
              IN { Out([w EXCEPT !.up = [id \in DOMAIN w.up \cup {w.nextId} |->
                                           IF id = w.nextId THEN row ELSE w.up[id]],
                                 !.nextId = w.nextId + 1],
                       [f EXCEPT !.pc = "dellinks", !.pid = w.nextId]) }
    ELSE LET pid == f.payload.id
             hit == pid \in DOMAIN w.up /\ w.up[pid].user_id = f.user
         IN IF hit /\ ~user_profiles_handle_unique(w.up, f.user, pid, handle)
              THEN { Out(w, Throw(f, "duplicate key value violates unique constraint")) }
            ELSE { Out(Settle([w EXCEPT !.up = [id \in DOMAIN w.up |->
                                           IF id = pid /\ hit
                                             THEN [w.up[id] EXCEPT !.name = name, !.handle = handle,
                                                                    !.updated_at = Now(w)]
                                             ELSE w.up[id]]]),
                       [f EXCEPT !.pc = "dellinks", !.pid = pid]) }

\* a faulty save that never looks at payload.active
SaveActivationIgnoresActive(f) == [f EXCEPT !.pc = "selActive", !.after = "fetch"]

\* the part of saveProfileForUser after the link queries
SaveActivation(f) ==
  IF f.payload.active
    THEN [f EXCEPT !.pc = "demote", !.target = f.pid, !.after = "fetch"]
    ELSE [f EXCEPT !.pc = "selActive", !.after = "fetch"]

\* a faulty save that leaves the stored links in place before inserting
StepSaveKeepsOldLinks(w, f) ==
  IF Len(f.payload.links) > 0
    THEN { Out(w, [f EXCEPT !.pc = "inslinks"]) }
    ELSE { Out(w, SaveActivation(f)) }

\* delete().eq("profile_id", profileId): no user_id filter
StepSaveDeleteLinks(w, f) ==
  LET w2 == [w EXCEPT !.pl = { l \in w.pl : l.profile_id # f.pid }] IN
  IF Len(f.payload.links) > 0
    THEN { Out(w2, [f EXCEPT !.pc = "inslinks"]) }
    ELSE { Out(w2, SaveActivation(f)) }

\* insert(formatted); profile_id references user_profiles(id)
StepSaveInsertLinks(w, f) ==
  LET links == f.payload.links
      n == Len(links)
  IN
  IF f.pid \notin DOMAIN w.up
    THEN { Out(w, Throw(f, "violates foreign key constraint")) }
  ELSE IF w.nextLinkId + n - 1 > f.linkCap THEN {}
    ELSE { Out([w EXCEPT !.pl = w.pl \cup
                         { [id |-> w.nextLinkId + i - 1, profile_id |-> f.pid, user_id |-> f.user,
                            title |-> linkTitle(links[i]), order_index |-> i - 1] : i \in 1..n },
                       !.nextLinkId = w.nextLinkId + n],
               SaveActivation(f)) }

\* delete().eq(id).eq(user_id), profile_links rows go with on delete cascade
StepDelete(w, f) ==
  LET hit == f.id \in DOMAIN w.up /\ w.up[f.id].user_id = f.user IN
  { Out(IF hit
          THEN Settle([w EXCEPT !.up = [id \in DOMAIN w.up \ {f.id} |-> w.up[id]],
                                !.pl = { l \in w.pl : l.profile_id # f.id }])
          ELSE w,
        [f EXCEPT !.pc = "selActive", !.after = "done"]) }

\* getProfilesForUser: one select over the user's rows
StepGetProfiles(w, f) ==
  { Out(w, [f EXCEPT !.pc = "done", !.ok = "ok",
                     !.seen = Cardinality(ActiveOf(w.up, f.user)),
                     !.total = Cardinality(RowsOf(w.up, f.user))]) }

\* getActiveProfileForUser: eq(is_active, true).limit(1).maybeSingle()
StepGetActive(w, f) ==
  IF ActiveOf(w.up, f.user) = {}
    THEN { Out(w, [f EXCEPT !.pc = "done", !.ok = "ok", !.seen = 0, !.total = 0]) }
    ELSE { Out(w, [f EXCEPT !.pc = "done", !.ok = "ok", !.seen = 1, !.total = 1,
                            !.ret = fetchProfileWithLinksById(w, id)]) :
             id \in ActiveOf(w.up, f.user) }

SupabaseStart(w, f) ==
  CASE f.op = "save" -> StepSaveStart(w, f)
    [] f.op = "delete" -> { Out(w, [f EXCEPT !.pc = "delete"]) }
    [] f.op = "setActive" ->
         { Out(w, [f EXCEPT !.pc = "demote", !.target = f.id, !.pid = f.id, !.after = "fetch"]) }
    [] f.op = "getProfiles" -> { Out(w, [f EXCEPT !.pc = "select"]) }
    [] f.op = "getActive" -> { Out(w, [f EXCEPT !.pc = "select"]) }

SupabaseStep(w, f) ==
  CASE f.pc = "start" -> SupabaseStart(w, f)
    [] f.pc = "write" -> StepSaveWrite(w, f)
    [] f.pc = "dellinks" -> StepSaveDeleteLinks(w, f)
    [] f.pc = "inslinks" -> StepSaveInsertLinks(w, f)
    [] f.pc = "delete" -> StepDelete(w, f)
    [] f.pc = "selActive" -> StepSelActive(w, f)
    [] f.pc = "selFirst" -> StepSelFirst(w, f)
    [] f.pc = "demote" -> StepDemote(w, f)
    [] f.pc = "promote" -> StepPromote(w, f)
    [] f.pc = "fetch" -> StepFetch(w, f)
    [] f.pc = "select" -> IF f.op = "getProfiles" THEN StepGetProfiles(w, f) ELSE StepGetActive(w, f)
    [] OTHER -> {}

(***************************************************************************)
(* profile-service.ts without Supabase: the memory* functions.  They are   *)
(* synchronous, so a call is one step.                                     *)
(***************************************************************************)
IndexOfId(list, id) ==
  IF \E i \in 1..Len(list) : list[i].id = id
    THEN CHOOSE i \in 1..Len(list) : list[i].id = id /\ \A j \in 1..(i - 1) : list[j].id # id
    ELSE 0

\* the loop of memoryEnsureSingleActiveProfile (the throw is the caller's)
memoryEnsureSingleActiveProfile(list, desired, now) ==
  [i \in 1..Len(list) |->
     IF list[i].id = desired
       THEN [list[i] EXCEPT !.is_active = TRUE, !.updated_at = now]
       ELSE [list[i] EXCEPT !.is_active = FALSE]]

memoryEnsureHasActiveProfile(list, now) ==
  IF Len(list) = 0 THEN list
  ELSE IF \E i \in 1..Len(list) : list[i].is_active THEN list
  ELSE [list EXCEPT ![1] = [@ EXCEPT !.is_active = TRUE, !.updated_at = now]]

Digit(i) == <<"0", "1", "2", "3", "4", "5", "6", "7", "8", "9">>[(i % 10) + 1]

\* link.title?.trim() || `Link ${index + 1}`
memoryLinkTitle(link, i) ==
  IF Trim(link.title) # << >> THEN Trim(link.title) ELSE <<"L", Digit(i)>>

MemoryRet(profile) ==
  [id |-> profile.id, user_id |-> profile.user_id, is_active |-> profile.is_active,
   links |-> profile.links]

\* memoryAccounts.get(userId) of an account that has no record yet
NoAccount == [username |-> << >>, display_name |-> << >>]

\* generateMemoryHandle: the seed, or the seed with the first free counter
RECURSIVE generateMemoryHandle(_, _, _)
generateMemoryHandle(seed, counter, existing) ==
  LET candidate == IF counter = 0 THEN seed ELSE seed \o <<"-", Digit(counter)>>
  IN IF candidate \in existing THEN generateMemoryHandle(seed, counter + 1, existing)
     ELSE candidate

ensureMemoryAccountRecord(acc, u, fallbackHandle, displayName) ==
  IF acc[u] # NoAccount
    THEN IF displayName # << >> /\ acc[u].display_name = << >>
           THEN [acc EXCEPT ![u].display_name = displayName]
           ELSE acc
    ELSE [acc EXCEPT ![u] =
            [username |-> generateMemoryHandle(fallbackHandle, 0,
                            { acc[v].username : v \in { x \in DOMAIN acc : acc[x] # NoAccount } }),
             display_name |-> displayName]]

memorySaveProfileForUser(w, f) ==
  LET u == f.user
      payload == f.payload
      handle == normaliseHandle(payload.handle)
      name == Trim(payload.name)
      profiles == w.mem[u]
      now == Now(w)
      at == IF payload.id = NoId THEN 0 ELSE IndexOfId(profiles, payload.id)
      pid == IF at = 0 THEN w.nextId ELSE payload.id
      n == Len(payload.links)
      old == IF at = 0 THEN << >> ELSE profiles[at].links
      links == [i \in 1..n |->
                  LET link == payload.links[i]
                      ex == IF link.id = NoId THEN 0 ELSE IndexOfId(old, link.id)
                  IN [id |-> IF ex # 0 THEN old[ex].id
                             ELSE IF link.id # NoId THEN link.id
                             ELSE w.nextLinkId + i - 1,
                      profile_id |-> pid, user_id |-> u,
                      title |-> memoryLinkTitle(link, i), order_index |-> i - 1]]
      fresh == [id |-> pid, user_id |-> u, name |-> name, handle |-> handle,
                is_active |-> FALSE, updated_at |-> now, links |-> links]
      written == IF at = 0
                   THEN Append(profiles, fresh)
                   ELSE [profiles EXCEPT ![at] = [@ EXCEPT !.name = name, !.handle = handle,
                                                          !.updated_at = now, !.links = links]]
      idx == IF at = 0 THEN Len(written) ELSE at
      activated == IF payload.active
                     THEN memoryEnsureSingleActiveProfile(written, pid, now)
                     ELSE IF \E i \in 1..Len(written) : written[i].is_active
                       THEN written
                       ELSE [written EXCEPT ![idx] = [@ EXCEPT !.is_active = TRUE]]
      final == memoryEnsureHasActiveProfile(activated, now)
  IN
  IF name = << >> THEN { Out(w, Throw(f, "Profile name is required")) }
  ELSE IF handle = << >> THEN { Out(w, Throw(f, "Handle is required")) }
  ELSE IF (at = 0 /\ w.nextId > f.cap) \/ w.nextLinkId + n - 1 > f.linkCap THEN {}
  ELSE { Out(Settle([w EXCEPT !.mem = [w.mem EXCEPT ![u] = final],
                              !.acc = ensureMemoryAccountRecord(w.acc, u, handle, name),
                              !.nextId = IF at = 0 THEN w.nextId + 1 ELSE w.nextId,
                              !.nextLinkId = w.nextLinkId + n]),
             [f EXCEPT !.pc = "done", !.ok = "ok", !.pid = pid, !.ret = MemoryRet(final[idx])]) }

memoryDeleteProfileForUser(w, f) ==
  LET profiles == w.mem[f.user]
      at == IndexOfId(profiles, f.id)
      spliced == [i \in 1..(Len(profiles) - 1) |-> IF i < at THEN profiles[i] ELSE profiles[i + 1]]
  IN
  IF at = 0 THEN { Out(w, [f EXCEPT !.pc = "done", !.ok = "ok"]) }
  ELSE { Out(Settle([w EXCEPT !.mem = [w.mem EXCEPT ![f.user] =
                                         memoryEnsureHasActiveProfile(spliced, Now(w))]]),
             [f EXCEPT !.pc = "done", !.ok = "ok"]) }

memorySetActiveProfileForUser(w, f) ==
  LET profiles == w.mem[f.user]
      at == IndexOfId(profiles, f.id)
      after == memoryEnsureSingleActiveProfile(profiles, f.id, Now(w))
      w2 == Settle([w EXCEPT !.mem = [w.mem EXCEPT ![f.user] = after]])
  IN
  IF at = 0 THEN { Out(w2, Throw(f, "Profile not found")) }
  ELSE { Out(w2, [f EXCEPT !.pc = "done", !.ok = "ok", !.pid = f.id, !.ret = MemoryRet(after[at])]) }

MemCount(list) == Cardinality({ i \in 1..Len(list) : list[i].is_active })

memoryGetProfiles(w, f) ==
  { Out(w, [f EXCEPT !.pc = "done", !.ok = "ok",
                     !.seen = MemCount(w.mem[f.user]), !.total = Len(w.mem[f.user])]) }

memoryGetActiveProfileForUser(w, f) ==
  LET profiles == w.mem[f.user]
      S == { i \in 1..Len(profiles) : profiles[i].is_active }
  IN
  IF S = {} THEN { Out(w, [f EXCEPT !.pc = "done", !.ok = "ok", !.seen = 0, !.total = 0]) }
  ELSE { Out(w, [f EXCEPT !.pc = "done", !.ok = "ok", !.seen = 1, !.total = 1,
                          !.ret = MemoryRet(profiles[CHOOSE i \in S : \A j \in S : i <= j])]) }

MemoryStep(w, f) ==
  IF f.pc # "start" THEN {}
  ELSE CASE f.op = "save" -> memorySaveProfileForUser(w, f)
         [] f.op = "delete" -> memoryDeleteProfileForUser(w, f)
         [] f.op = "setActive" -> memorySetActiveProfileForUser(w, f)
         [] f.op = "getProfiles" -> memoryGetProfiles(w, f)
         [] f.op = "getActive" -> memoryGetActiveProfileForUser(w, f)

(***************************************************************************)
(* One step of a call, and a call run to its end without interleaving.     *)
(***************************************************************************)
CallStep(enabled, w, f) == IF enabled THEN SupabaseStep(w, f) ELSE MemoryStep(w, f)

RECURSIVE RunCall(_, _, _)
RunCall(enabled, w, f) ==
  IF f.pc = "done" THEN { Out(w, f) }
  ELSE UNION { RunCall(enabled, o.w, o.f) : o \in CallStep(enabled, w, f) }

(***************************************************************************)
(* The autosave editors.  A draft value is an edit number together with a  *)
(* mark telling whether it is the server's rendering of that edit          *)
(* (mapProfile of the response: server ids, server updated_at) or the      *)
(* text as typed.  Each event is followed by the render it causes and the  *)
(* effects of that render.                                                 *)
(***************************************************************************)
Typed(n) == [rev |-> n, canonical |-> FALSE]

\* mapProfile(await res.json()) / payload.fields: what the server hands back
mapProfile(d) == [rev |-> d.rev, canonical |-> TRUE]

Loaded == [rev |-> 0, canonical |-> TRUE]

(***************************************************************************)
(* PublicProfileEditorPage.tsx                                             *)
(***************************************************************************)
EditorLoaded ==
  [ draft |-> Loaded, savedProfile |-> Loaded, saving |-> FALSE, saveError |-> FALSE,
    autosavePending |-> FALSE, autosaveTimer |-> {}, requests |-> {}, posted |-> << >>,
    edits |-> 0, event |-> "load", quiet |-> FALSE ]

isDirty(e) == e.draft # e.savedProfile

\* handleSave as built by the render whose draft was d and whose saving was s
handleSave(e, d, s) ==
  IF s THEN [e EXCEPT !.autosavePending = TRUE]
  ELSE [e EXCEPT !.autosavePending = FALSE,
                 !.saving = TRUE,
                 !.saveError = FALSE,
                 !.requests = @ \cup {[n |-> Len(e.posted) + 1, draft |-> d]},
                 !.posted = Append(@, d)]

\* the two autosave effects, run when one of their dependencies changed
\* between the render of `old` and the render of `new`
EditorEffects(old, new) ==
  IF new.draft = old.draft /\ new.saving = old.saving /\ isDirty(new) = isDirty(old)
  THEN new
  ELSE LET flushed == IF ~new.saving /\ new.autosavePending /\ isDirty(new)
                      THEN handleSave([new EXCEPT !.autosavePending = FALSE], new.draft, new.saving)
                      ELSE new
       IN [flushed EXCEPT !.autosaveTimer =
             IF isDirty(flushed) THEN {[draft |-> flushed.draft, saving |-> flushed.saving]} ELSE {}]

EditorStep(e) ==
  /\ PublicProfileEditorPage' = e
  /\ UNCHANGED <<storeVars, LeadFormBuilder, VCardContent, PublicLeadForm>>

handleProfileChange ==
  LET e == PublicProfileEditorPage IN
  /\ e.edits < MaxEdits
  /\ EditorStep(EditorEffects(e, [e EXCEPT !.draft = Typed(e.edits + 1), !.edits = @ + 1,
                                            !.saveError = FALSE, !.event = "edit", !.quiet = FALSE]))

autosaveTimerFires ==
  LET e == PublicProfileEditorPage IN
  /\ Len(e.posted) < MaxSends
  /\ \E t \in e.autosaveTimer :
       EditorStep(EditorEffects(e, handleSave([e EXCEPT !.autosaveTimer = {}, !.event = "timer"],
                                              t.draft, t.saving)))

onRetrySave ==
  LET e == PublicProfileEditorPage IN
  /\ e.saveError
  /\ Len(e.posted) < MaxSends
  /\ EditorStep(EditorEffects(e, handleSave([e EXCEPT !.event = "retry", !.quiet = FALSE],
                                            e.draft, e.saving)))

\* res.ok: the try block of handleSave after the await, then its finally
saveResolved ==
  LET e == PublicProfileEditorPage IN
  \E r \in e.requests :
    LET saved == mapProfile(r.draft) IN
    EditorStep(EditorEffects(e, [e EXCEPT !.requests = @ \ {r}, !.draft = saved,
                                          !.savedProfile = saved, !.saving = FALSE,
                                          !.event = "saved"]))

\* a faulty catch block: it rolls the draft back to the last saved profile
saveRejectedRollsBack ==
  LET e == PublicProfileEditorPage IN
  \E r \in e.requests :
    EditorStep(EditorEffects(e, [e EXCEPT !.requests = @ \ {r}, !.draft = e.savedProfile,
                                          !.saveError = TRUE, !.saving = FALSE,
                                          !.event = "failed", !.quiet = TRUE]))

\* !res.ok or a network error: the catch block of handleSave, then its finally
saveRejected ==
  LET e == PublicProfileEditorPage IN
  \E r \in e.requests :
    EditorStep(EditorEffects(e, [e EXCEPT !.requests = @ \ {r}, !.saveError = TRUE,
                                          !.saving = FALSE, !.event = "failed",
                                          !.quiet = TRUE]))

(***************************************************************************)
(* VCardContent                                                            *)
(***************************************************************************)
VCardLoaded ==
  [ fields |-> Loaded, lastSavedRef |-> Loaded, latestFieldsRef |-> Loaded,
    status |-> "saved", saveTimer |-> {}, requests |-> {}, received |-> << >>,
    vcard_profiles |-> Loaded, edits |-> 0, posts |-> 0, isDirty |-> FALSE ]

\* the isDirty memo (recomputed only by a render whose fields changed, from
\* the value lastSavedRef holds at that render), then the effects that depend
\* on fields: latestFieldsRef and the save timer
VCardEffects(old, new) ==
  IF new.fields = old.fields THEN new
  ELSE IF new.lastSavedRef = new.fields
       THEN [new EXCEPT !.isDirty = FALSE, !.latestFieldsRef = new.fields, !.saveTimer = {}]
       ELSE [new EXCEPT !.isDirty = TRUE, !.latestFieldsRef = new.fields,
                        !.status = "saving", !.saveTimer = {[fields |-> new.fields]}]

VCardStep(v) ==
  /\ VCardContent' = v
  /\ UNCHANGED <<storeVars, PublicProfileEditorPage, LeadFormBuilder, PublicLeadForm>>

vcardUpdateField ==
  LET v == VCardContent IN
  /\ v.edits < MaxEdits
  /\ \E c \in BOOLEAN :
       VCardStep(VCardEffects(v, [v EXCEPT !.fields = [rev |-> v.edits + 1, canonical |-> c],
                                           !.edits = @ + 1]))

\* the timer callback: persist(fields) up to its await
vcardSaveTimerFires ==
  LET v == VCardContent IN
  \E t \in v.saveTimer :
    VCardStep([v EXCEPT !.saveTimer = {}, !.status = "saving", !.posts = @ + 1,
                        !.requests = @ \cup {[n |-> v.posts + 1, fields |-> t.fields,
                                              arrived |-> FALSE]}])

\* a POST reaches /api/vcard/profile and is written
vcardRequestArrives ==
  LET v == VCardContent IN
  \E r \in v.requests :
    /\ ~r.arrived
    /\ VCardStep([v EXCEPT !.requests = (@ \ {r}) \cup {[r EXCEPT !.arrived = TRUE]},
                           !.received = Append(@, r.fields),
                           !.vcard_profiles = mapProfile(r.fields)])

\* persist after its await, response.ok
vcardSaveResolved ==
  LET v == VCardContent IN
  \E r \in v.requests :
    /\ r.arrived
    /\ LET payload == mapProfile(r.fields)
           adopt == v.latestFieldsRef = r.fields /\ payload # r.fields
           stillDirty == v.latestFieldsRef # payload
       IN VCardStep(VCardEffects(v, [v EXCEPT !.requests = @ \ {r},
                                              !.lastSavedRef = payload,
                                              !.fields = IF adopt THEN payload ELSE @,
                                              !.status = IF stillDirty THEN "saving" ELSE "saved"]))

\* persist after its await, the catch block
vcardSaveRejected ==
  LET v == VCardContent IN
  \E r \in v.requests :
    VCardStep([v EXCEPT !.requests = @ \ {r}, !.status = "error"])

(***************************************************************************)
(* LeadFormBuilder                                                         *)
(***************************************************************************)
KeyChars ==
  { "a", "b", "c", "d", "e", "f", "g", "h", "i", "j", "k", "l", "m", "n", "o", "p", "q",
    "r", "s", "t", "u", "v", "w", "x", "y", "z",
    "0", "1", "2", "3", "4", "5", "6", "7", "8", "9", "_" }

RECURSIVE DropNonKeyChars(_)
DropNonKeyChars(s) ==
  IF s # << >> /\ Head(s) \notin KeyChars THEN DropNonKeyChars(Tail(s)) ELSE s

\* .replace(/[^a-z0-9_]+/g, "_")
RECURSIVE ReplaceNonKeyRuns(_)
ReplaceNonKeyRuns(s) ==
  IF s = << >> THEN << >>
  ELSE IF Head(s) \in KeyChars THEN <<Head(s)>> \o ReplaceNonKeyRuns(Tail(s))
  ELSE <<"_">> \o ReplaceNonKeyRuns(DropNonKeyChars(Tail(s)))

RECURSIVE StripLeadingUnderscores(_)
StripLeadingUnderscores(s) ==
  IF s # << >> /\ Head(s) = "_" THEN StripLeadingUnderscores(Tail(s)) ELSE s

RECURSIVE StripTrailingUnderscores(_)
StripTrailingUnderscores(s) ==
  IF s # << >> /\ s[Len(s)] = "_" THEN StripTrailingUnderscores(SubSeq(s, 1, Len(s) - 1)) ELSE s

KeyMaxLen == 40

\* each step of the chain works on the value of the step before it
normalizeKey(value) ==
  CHOOSE key \in
    { SubSeq(k, 1, IF Len(k) < KeyMaxLen THEN Len(k) ELSE KeyMaxLen) :
        k \in { StripTrailingUnderscores(s3) :
                  s3 \in { StripLeadingUnderscores(s2) :
                             s2 \in { ReplaceNonKeyRuns(s1) :
                                        s1 \in { ToLowerCase(s0) :
                                                   s0 \in { Trim(v) : v \in {value} } } } } } } : TRUE

FieldWord == <<"f", "i", "e", "l", "d">>
FieldLabel == <<"F", "i", "e", "l", "d">>

OrElse(a, b) == IF a # << >> THEN a ELSE b

ensureFieldDefaults(field) ==
  [ key |-> OrElse(field.key, normalizeKey(OrElse(field.label, FieldWord))),
    label |-> OrElse(field.label, FieldLabel) ]

RECURSIVE NextFreeKey(_, _, _)
NextFreeKey(stem, counter, used) ==
  LET nextKey == stem \o <<"_", Digit(counter)>>
  IN IF nextKey \in used THEN NextFreeKey(stem, counter + 1, used) ELSE nextKey

UniqueKeysForgetsUsed(fields, used) ==
  [i \in 1..Len(fields) |->
     [fields[i] EXCEPT !.key = OrElse(normalizeKey(OrElse(fields[i].key,
                                                           OrElse(fields[i].label, FieldWord))),
                                      FieldWord)]]

RECURSIVE UniqueKeysFrom(_, _)
UniqueKeysFrom(fields, used) ==
  IF fields = << >> THEN << >>
  ELSE LET field == Head(fields)
           base == normalizeKey(OrElse(field.key, OrElse(field.label, FieldWord)))
           stem == OrElse(base, FieldWord)
           nextKey == IF stem \in used THEN NextFreeKey(stem, 1, used) ELSE stem
       IN <<[field EXCEPT !.key = nextKey]>> \o UniqueKeysFrom(Tail(fields), used \cup {nextKey})

ensureUniqueKeys(fields) == UniqueKeysFrom(fields, {})

RawKeys == { << >>, <<"a">>, <<"A", " ">> }
RawLabels == { << >>, <<"A">> }

\* the builder once an account without stored fields or settings is loaded:
\* the snapshot string is the one of the first render, so the isDirty memo
\* still holds what it computed against lastSnapshotRef.current = null
BuilderLoaded ==
  [ fields |-> << >>, lastSnapshotRef |-> << >>, isDirty |-> TRUE,
    savingRef |-> FALSE, pendingSave |-> FALSE,
    autosaveTimer |-> {[fields |-> << >>]}, requests |-> {},
    keyToIdRef |-> {}, lastSavedFieldIds |-> {}, saveState |-> "saved",
    lead_form_fields |-> {}, nextFieldId |-> 1, edits |-> 0, posts |-> 0 ]

\* keyToIdRef.current.get(field.key) ?? field.id
OrderedId(keyToId, field) ==
  IF \E m \in keyToId : m.key = field.key
  THEN (CHOOSE m \in keyToId : m.key = field.key).id
  ELSE field.id

\* persist() as built by the render whose fields were closureFields, up to
\* its first await
persist(b, closureFields) ==
  IF b.savingRef THEN [b EXCEPT !.pendingSave = TRUE]
  ELSE LET nextFields == ensureUniqueKeys(closureFields)
           ordered == [i \in 1..Len(nextFields) |->
                         [id |-> OrderedId(b.keyToIdRef, nextFields[i]), key |-> nextFields[i].key]]
       IN [b EXCEPT !.savingRef = TRUE, !.pendingSave = FALSE, !.saveState = "saving",
                    !.posts = @ + 1,
                    !.requests = @ \cup {[n |-> b.posts + 1, closure |-> closureFields,
                                          fields |-> nextFields, ordered |-> ordered]}]

\* the render after an event: the isDirty memo is recomputed when the
\* snapshot string changed, the timer effect runs again when isDirty or
\* persist (that is, the fields array) changed
BuilderEffects(old, new, newArray) ==
  LET dirty == IF new.fields # old.fields THEN new.fields # new.lastSnapshotRef ELSE old.isDirty
  IN IF newArray \/ dirty # old.isDirty
     THEN [new EXCEPT !.isDirty = dirty,
                      !.autosaveTimer = IF dirty THEN {[fields |-> new.fields]} ELSE {}]
     ELSE [new EXCEPT !.isDirty = dirty]

BuilderStep(b) ==
  /\ LeadFormBuilder' = b
  /\ UNCHANGED <<storeVars, PublicProfileEditorPage, VCardContent, PublicLeadForm>>

FieldIds(b) == { b.fields[i].id : i \in 1..Len(b.fields) }

handleAddField ==
  LET b == LeadFormBuilder IN
  /\ b.edits < MaxEdits
  /\ Len(b.fields) < MaxFields
  /\ \E key \in RawKeys, label \in RawLabels :
       LET d == ensureFieldDefaults([key |-> key, label |-> label])
           next == [id |-> b.nextFieldId, key |-> d.key, label |-> d.label]
       IN BuilderStep(BuilderEffects(b, [b EXCEPT !.fields = ensureUniqueKeys(Append(@, next)),
                                                  !.nextFieldId = @ + 1, !.edits = @ + 1], TRUE))

updateField ==
  LET b == LeadFormBuilder IN
  /\ b.edits < MaxEdits
  /\ \E fieldId \in FieldIds(b),
          patch \in [key : RawKeys] \cup [label : RawLabels] :
       BuilderStep(BuilderEffects(b,
         [b EXCEPT !.fields = ensureUniqueKeys(
                                [i \in 1..Len(b.fields) |->
                                   IF b.fields[i].id = fieldId
                                   THEN IF "key" \in DOMAIN patch
                                          THEN [b.fields[i] EXCEPT !.key = patch.key]
                                          ELSE [b.fields[i] EXCEPT !.label = patch.label]
                                   ELSE b.fields[i]]),
                   !.edits = @ + 1], TRUE))

moveField ==
  LET b == LeadFormBuilder IN
  /\ b.edits < MaxEdits
  /\ \E index \in 1..Len(b.fields), nextIndex \in 1..Len(b.fields) :
       /\ nextIndex = index - 1 \/ nextIndex = index + 1
       /\ BuilderStep(BuilderEffects(b,
            [b EXCEPT !.fields = [i \in 1..Len(b.fields) |->
                                    IF i = index THEN b.fields[nextIndex]
                                    ELSE IF i = nextIndex THEN b.fields[index]
                                    ELSE b.fields[i]],
                      !.edits = @ + 1], TRUE))

handleDeleteField ==
  LET b == LeadFormBuilder IN
  /\ b.edits < MaxEdits
  /\ \E fieldId \in FieldIds(b) :
       BuilderStep(BuilderEffects(b,
         [b EXCEPT !.fields = SelectSeq(@, LAMBDA f : f.id # fieldId), !.edits = @ + 1], TRUE))

builderTimerFires ==
  LET b == LeadFormBuilder IN
  /\ b.posts < MaxSends
  /\ \E t \in b.autosaveTimer :
       BuilderStep(BuilderEffects(b, persist([b EXCEPT !.autosaveTimer = {}], t.fields), FALSE))

\* insert ... on conflict (user_id, handle, key) do update, row by row; a row
\* that would carry the id of another row violates the primary key and fails
\* the whole statement
RECURSIVE Upsert(_, _)
Upsert(rows, ordered) ==
  IF ordered = << >> THEN [ok |-> TRUE, rows |-> rows]
  ELSE LET r == Head(ordered)
           others == { x \in rows : x.key # r.key }
       IN IF \E x \in others : x.id = r.id
          THEN [ok |-> FALSE, rows |-> rows]
          ELSE Upsert(others \cup {[id |-> r.id, key |-> r.key]}, Tail(ordered))

OrderedIds(r) == { r.ordered[i].id : i \in 1..Len(r.ordered) }

\* the finally block of persist
PersistFinally(b, r) ==
  IF b.pendingSave
  THEN persist([b EXCEPT !.savingRef = FALSE, !.pendingSave = FALSE], r.closure)
  ELSE [b EXCEPT !.savingRef = FALSE]

\* persist after its awaits, every query accepted
builderSaveResolved ==
  LET b == LeadFormBuilder IN
  \E r \in b.requests :
    LET up == Upsert(b.lead_form_fields, r.ordered)
        removedIds == b.lastSavedFieldIds \ OrderedIds(r)
    IN /\ up.ok
       /\ BuilderStep(BuilderEffects(b,
            PersistFinally([b EXCEPT !.requests = @ \ {r},
                                     !.lead_form_fields = { x \in up.rows : x.id \notin removedIds },
                                     !.fields = r.fields,
                                     !.saveState = "saved",
                                     !.lastSnapshotRef = r.fields,
                                     !.lastSavedFieldIds = OrderedIds(r),
                                     !.keyToIdRef = { [key |-> r.ordered[i].key, id |-> r.ordered[i].id] :
                                                        i \in 1..Len(r.ordered) }], r), TRUE))

\* persist after its awaits, a query refused: the upsert itself, or a later
\* query with the upsert already written
builderSaveRejected ==
  LET b == LeadFormBuilder IN
  \E r \in b.requests, written \in BOOLEAN :
    LET up == Upsert(b.lead_form_fields, r.ordered) IN
    /\ written => up.ok
    /\ BuilderStep(BuilderEffects(b,
         PersistFinally([b EXCEPT !.requests = @ \ {r},
                                  !.lead_form_fields = IF written THEN up.rows ELSE @,
                                  !.saveState = "error"], r), FALSE))

(***************************************************************************)
(* PublicLeadForm: the form a visitor of a public profile fills in.  The   *)
(* component mounts with no fields and DEFAULT_SETTINGS and loads both; a  *)
(* visitor (or a script) fills answers, the consent box and the hidden     *)
(* honeypot input, and submits.  leads counts the rows of the leads table, *)
(* notified the posts to /api/leads/notify.  The submit button is disabled *)
(* while the owner is unknown, so ownerId is set in every submission.      *)
(***************************************************************************)
MaxSubmits == 2

LeadFormMounted ==
  [ required |-> FALSE, consentEnabled |-> FALSE, redirectEnabled |-> FALSE,
    loaded |-> FALSE,
    answers |-> [required |-> FALSE, nameAndEmail |-> FALSE], consentChecked |-> FALSE,
    trap |-> << >>, toast |-> "none", redirected |-> FALSE,
    leads |-> 0, notified |-> 0, submits |-> 0 ]

validateRequired(p) ==
  ~(p.consentEnabled /\ ~p.consentChecked) /\ ~(p.required /\ ~p.answers.required)

resetForm(p) ==
  [p EXCEPT !.answers = [required |-> FALSE, nameAndEmail |-> FALSE],
            !.consentChecked = FALSE, !.trap = << >>]

\* onSubmit from its first line to its finally block; insertError is the
\* answer of the direct insert, fallbackOk the one of /api/leads/submit
onSubmit(p, insertError, fallbackOk) ==
  LET q == [p EXCEPT !.submits = @ + 1] IN
  IF ~validateRequired(p) THEN [q EXCEPT !.toast = "Missing info"]
  ELSE IF Len(Trim(p.trap)) > 0 THEN resetForm([q EXCEPT !.toast = "Thanks!"])
  ELSE IF ~p.answers.nameAndEmail THEN [q EXCEPT !.toast = "Missing info"]
  ELSE IF insertError /\ ~fallbackOk THEN [q EXCEPT !.toast = "Could not submit"]
  ELSE resetForm([q EXCEPT !.leads = @ + 1, !.notified = @ + 1, !.toast = "Thanks!",
                           !.redirected = p.redirectEnabled])

(***************************************************************************)
(* The editors as state machines.                                          *)
(***************************************************************************)
UiInit ==
  /\ PublicProfileEditorPage = EditorLoaded
  /\ LeadFormBuilder = BuilderLoaded
  /\ VCardContent = VCardLoaded
  /\ PublicLeadForm = LeadFormMounted

EditorNext ==
  \/ handleProfileChange
  \/ autosaveTimerFires
  \/ onRetrySave
  \/ saveResolved
  \/ saveRejected

VCardNext ==
  \/ vcardUpdateField
  \/ vcardSaveTimerFires
  \/ vcardRequestArrives
  \/ vcardSaveResolved
  \/ vcardSaveRejected

BuilderNext ==
  \/ handleAddField
  \/ updateField
  \/ moveField
  \/ handleDeleteField
  \/ builderTimerFires
  \/ builderSaveResolved
  \/ builderSaveRejected

(***************************************************************************)
(* The state after module load: empty tables, an empty memory map, no call *)
(* running.  SUPABASE_ENABLED is fixed by the deployment's environment.    *)
(***************************************************************************)
CallIds == 1..MaxCalls

StoreInit(enabled) ==
  /\ SUPABASE_ENABLED = enabled
  /\ user_profiles = << >>
  /\ profile_links = {}
  /\ memoryProfiles = [u \in Users |-> << >>]
  /\ memoryAccounts = [u \in Users |-> NoAccount]
  /\ nextId = 1
  /\ nextLinkId = 1
  /\ calls = [c \in CallIds |-> Idle]
  /\ UiInit

KnownOrGhost == (1..(nextId - 1)) \cup {GhostId}

\* the payloads tried; one that fails validation is tried in one shape only
Payloads ==
  { p \in [id : {NoId} \cup KnownOrGhost, name : RawNames, handle : RawHandles,
           links : PayloadLinks, active : BOOLEAN] :
      (Trim(p.name) = << >> \/ normaliseHandle(p.handle) = << >>)
         => (p.id = NoId /\ p.links = << >> /\ ~p.active) }

SetWorld(w) ==
  /\ user_profiles' = w.up
  /\ profile_links' = w.pl
  /\ memoryProfiles' = w.mem
  /\ memoryAccounts' = w.acc
  /\ nextId' = w.nextId
  /\ nextLinkId' = w.nextLinkId

\* what is kept of a call once its response is out: the request line, the
\* outcome and the returned profile
Response(f) ==
  [f EXCEPT !.payload = [EmptyPayload EXCEPT !.id = f.payload.id, !.active = f.payload.active],
            !.after = "idle"]

\* a request served from its first line to its response, alone
Serve(f) ==
  \E o \in RunCall(SUPABASE_ENABLED, World, f) :
    /\ SetWorld(o.w)
    /\ calls' = [calls EXCEPT ![1] = Response(o.f)]
    /\ UNCHANGED <<SUPABASE_ENABLED, uiVars>>

Capped(f, cap, linkCap) == [f EXCEPT !.cap = cap, !.linkCap = linkCap]

saveProfileForUser ==
  \E u \in Users, p \in Payloads :
    Serve(Capped(NewCall("save", u, p.id, p), StoreCap, StoreLinkCap))

deleteProfileForUser ==
  \E u \in Users, id \in KnownOrGhost : Serve(NewCall("delete", u, id, EmptyPayload))

setActiveProfileForUser ==
  \E u \in Users, id \in KnownOrGhost : Serve(NewCall("setActive", u, id, EmptyPayload))

getProfilesForUser == \E u \in Users : Serve(NewCall("getProfiles", u, NoId, EmptyPayload))

getActiveProfileForUser == \E u \in Users : Serve(NewCall("getActive", u, NoId, EmptyPayload))

StoreNext ==
  \/ saveProfileForUser
  \/ deleteProfileForUser
  \/ setActiveProfileForUser
  \/ getProfilesForUser
  \/ getActiveProfileForUser

\* the service over the Supabase tables
SpecStore == StoreInit(TRUE) /\ [][StoreNext]_vars

\* the service over its in-memory fallback
SpecMemory == StoreInit(FALSE) /\ [][StoreNext]_vars

\* the service as deployed either way
ServiceInit == \E enabled \in BOOLEAN : StoreInit(enabled)

SpecService == ServiceInit /\ [][StoreNext]_vars

(***************************************************************************)
(* One account creating, re-saving and deleting profiles, with room for    *)
(* one profile more than the other specifications, so that a delete can    *)
(* leave two candidates behind.                                            *)
(***************************************************************************)
DeletePayloads ==
  [id : {NoId} \cup (1..(nextId - 1)), name : { <<"n">> },
   handle : { <<"a">>, <<"b">>, <<"c">> }, links : { << >> }, active : BOOLEAN]

DeleteNext ==
  \/ \E p \in DeletePayloads :
       Serve(Capped(NewCall("save", "A", p.id, p), MaxDeleteProfiles, 0))
  \/ \E id \in 1..(nextId - 1) : Serve(NewCall("delete", "A", id, EmptyPayload))

SpecDelete == ServiceInit /\ [][DeleteNext]_vars

\* the profiles of an account, and the active ones, in the store in use
ProfilesOf(u) ==
  IF SUPABASE_ENABLED THEN RowsOf(user_profiles, u)
  ELSE { memoryProfiles[u][i].id : i \in 1..Len(memoryProfiles[u]) }

ActiveProfilesOf(u) ==
  IF SUPABASE_ENABLED THEN ActiveOf(user_profiles, u)
  ELSE { memoryProfiles[u][i].id : i \in { j \in 1..Len(memoryProfiles[u]) : memoryProfiles[u][j].is_active } }

(***************************************************************************)
(* The repair on its own: ensureHasActiveProfile run again and again on    *)
(* one account, from every store state of up to MaxRepairProfiles profiles *)
(* with any active flags (none, one or several active) and any order of    *)
(* updated_at, on the Supabase tables or in memory.  calls[1] holds the    *)
(* last run (seen / total: active and stored profiles it started from),    *)
(* calls[2] the run before it.                                             *)
(***************************************************************************)
RepairInit ==
  \E enabled \in BOOLEAN, k \in 0..MaxRepairProfiles :
    \E act \in [1..k -> BOOLEAN], ts \in Permutations(1..k) :
      LET row(i) == [user_id |-> "A", name |-> <<"n">>, handle |-> <<"a", Digit(i)>>,
                     is_active |-> act[i], updated_at |-> ts[i]]
          rec(i) == [id |-> i, user_id |-> "A", name |-> <<"n">>, handle |-> <<"a", Digit(i)>>,
                     is_active |-> act[i], updated_at |-> ts[i], links |-> << >>]
      IN /\ SUPABASE_ENABLED = enabled
         /\ user_profiles = IF enabled THEN [i \in 1..k |-> row(i)] ELSE << >>
         /\ profile_links = {}
         /\ memoryProfiles = [u \in Users |->
                                IF ~enabled /\ u = "A" THEN [i \in 1..k |-> rec(i)] ELSE << >>]
         /\ memoryAccounts = [u \in Users |-> NoAccount]
         /\ nextId = k + 1
         /\ nextLinkId = 1
         /\ calls = [c \in CallIds |-> Idle]
         /\ UiInit

ensureHasActiveProfile ==
  LET f == [NewCall("ensure", "A", NoId, EmptyPayload) EXCEPT
              !.pc = "selActive", !.after = "done",
              !.seen = Cardinality(ActiveProfilesOf("A")),
              !.total = Cardinality(ProfilesOf("A"))]
      outcomes ==
        IF SUPABASE_ENABLED THEN RunCall(TRUE, World, f)
        ELSE { Out(Settle([World EXCEPT !.mem = [World.mem EXCEPT !["A"] =
                             memoryEnsureHasActiveProfile(@, Now(World))]]),
                   [f EXCEPT !.pc = "done", !.ok = "ok"]) }
  IN \E o \in outcomes :
       /\ SetWorld(o.w)
       /\ calls' = [calls EXCEPT ![1] = Response(o.f), ![2] = calls[1]]
       /\ UNCHANGED <<SUPABASE_ENABLED, uiVars>>

SpecRepair == RepairInit /\ [][ensureHasActiveProfile]_vars

\* updated_at of a stored profile
UpdatedAtOf(u, id) ==
  IF SUPABASE_ENABLED THEN user_profiles[id].updated_at
  ELSE memoryProfiles[u][IndexOfId(memoryProfiles[u], id)].updated_at

(***************************************************************************)
(* Requests of one account served concurrently: each awaited query of a    *)
(* call is a step, and the steps of the calls interleave.                  *)
(***************************************************************************)
ConcUsers == {"A"}

\* valid payloads without links: a new profile, or an existing one saved again
\* under its handle
ConcPayloads ==
  { p \in Payloads :
      /\ Trim(p.name) # << >> /\ normaliseHandle(p.handle) # << >> /\ p.links = << >>
      /\ p.id # NoId => /\ p.id \in DOMAIN user_profiles
                        /\ user_profiles[p.id].handle = normaliseHandle(p.handle) }

\* calls take the lowest free slot: the slots are interchangeable
Begin(c, f) ==
  /\ calls[c].pc = "idle"
  /\ \A d \in 1..(c - 1) : calls[d].pc # "idle"
  /\ calls' = [calls EXCEPT ![c] = f]
  /\ UNCHANGED <<SUPABASE_ENABLED, user_profiles, profile_links, memoryProfiles, memoryAccounts,
                   nextId, nextLinkId, uiVars>>

BeginSave ==
  \E c \in CallIds, u \in ConcUsers, p \in ConcPayloads :
    Begin(c, Capped(NewCall("save", u, p.id, p), StoreCap, StoreLinkCap))

BeginDelete ==
  \E c \in CallIds, u \in ConcUsers, id \in 1..(nextId - 1) :
    Begin(c, NewCall("delete", u, id, EmptyPayload))

BeginSetActive ==
  \E c \in CallIds, u \in ConcUsers, id \in 1..(nextId - 1) :
    Begin(c, NewCall("setActive", u, id, EmptyPayload))

BeginGetProfiles ==
  \E c \in CallIds, u \in ConcUsers : Begin(c, NewCall("getProfiles", u, NoId, EmptyPayload))

BeginGetActive ==
  \E c \in CallIds, u \in ConcUsers : Begin(c, NewCall("getActive", u, NoId, EmptyPayload))

\* one awaited query of call c
Query(c) ==
  /\ calls[c].pc \notin {"idle", "done"}
  /\ \E o \in CallStep(SUPABASE_ENABLED, World, calls[c]) :
       /\ SetWorld(o.w)
       /\ calls' = [calls EXCEPT ![c] = IF o.f.pc = "done" THEN Response(o.f) ELSE o.f]
  /\ UNCHANGED <<SUPABASE_ENABLED, uiVars>>

Await == \E c \in CallIds : Query(c)

\* the response of call c leaves the server
Respond ==
  \E c \in CallIds :
    /\ calls[c].pc = "done"
    /\ calls' = [calls EXCEPT ![c] = Idle]
    /\ UNCHANGED <<SUPABASE_ENABLED, user_profiles, profile_links, memoryProfiles, memoryAccounts,
                   nextId, nextLinkId, uiVars>>

ConcNext ==
  \/ BeginSave
  \/ BeginDelete
  \/ BeginSetActive
  \/ BeginGetProfiles
  \/ BeginGetActive
  \/ Await
  \/ Respond

SpecConc == StoreInit(TRUE) /\ [][ConcNext]_vars

\* the profile editor, the vCard editor and the lead-form builder, each over
\* an idle store
SpecEditor == StoreInit(TRUE) /\ [][EditorNext]_vars

SpecVCard == StoreInit(TRUE) /\ [][VCardNext]_vars

SpecBuilder == StoreInit(TRUE) /\ [][BuilderNext]_vars

(***************************************************************************)
(* Saving link lists: one account saves its profile over and over with     *)
(* link lists of every shape (padded and blank titles included), on the    *)
(* Supabase tables or on the in-memory fallback.  The url of a link is     *)
(* treated by the code exactly as its title is (trim, then a default), so  *)
(* the title stands for both.  The frame of the last call keeps the list   *)
(* that was sent.                                                          *)
(***************************************************************************)
LinkTitles == { <<"t">>, <<"u">>, <<" ", "t">>, << >> }

\* lists of new links with every title, and lists of links that carry an id
\* (one the store has handed out, as the editor sends back what it loaded)
LinkLists ==
  UNION { [1..n -> [id : {NoId}, title : LinkTitles]] \cup
          [1..n -> [id : 1..(nextLinkId - 1), title : { <<"t">> }]] : n \in 0..MaxLinkList }

LinkPayloads ==
  [id : {NoId} \cup (1..(nextId - 1)), name : { <<"n">> }, handle : { <<"a">> },
   links : LinkLists, active : {FALSE}]

saveProfileLinks ==
  \E p \in LinkPayloads :
    \E o \in RunCall(SUPABASE_ENABLED, World, Capped(NewCall("save", "A", p.id, p), 1, LinkIdCap)) :
      /\ SetWorld(o.w)
      /\ calls' = [calls EXCEPT ![1] = [o.f EXCEPT !.after = "idle"]]
      /\ UNCHANGED <<SUPABASE_ENABLED, uiVars>>

\* loading a profile: fetchProfileWithLinksById / memoryFetchProfileById
LoadedLinks(pid) ==
  IF SUPABASE_ENABLED THEN fetchProfileWithLinksById(World, pid).links
  ELSE LET at == IndexOfId(memoryProfiles["A"], pid)
       IN IF at = 0 THEN << >> ELSE memoryProfiles["A"][at].links

SpecLinks == ServiceInit /\ [][saveProfileLinks]_vars

(***************************************************************************)
(* Claims about the profile store.                                         *)
(***************************************************************************)
\* C1: after every save, set-active or delete served alone, an account has
\* exactly one active profile if it has a profile, and none otherwise.
C1_ExactlyOneActive ==
  \A u \in Users :
    Cardinality(ActiveProfilesOf(u)) = IF ProfilesOf(u) = {} THEN 0 ELSE 1

IsActivation(f) ==
  \/ f.op = "setActive"
  \/ f.op = "save" /\ f.payload.active

Promoted(f) == f.pc = "fetch" \/ (f.pc = "done" /\ f.ok = "ok")

\* C2: two activation requests for different profiles of one account, their
\* demote-all and promote queries interleaved in any order, never leave the
\* account with more than one active profile (here: once both have promoted).
C2_NeverTwoActive ==
  \A c \in CallIds, d \in CallIds :
    ( /\ c # d
      /\ IsActivation(calls[c]) /\ IsActivation(calls[d])
      /\ calls[c].user = calls[d].user
      /\ calls[c].target # calls[d].target
      /\ Promoted(calls[c]) /\ Promoted(calls[d]) )
    => Cardinality(ActiveOf(user_profiles, calls[c].user)) <= 1

IsRead(f) == f.op \in {"getProfiles", "getActive"}

\* C3: a read of an account that runs between the demote-all query and the
\* promote query of an activation of one of its profiles sees exactly one
\* active profile when the account has a profile.
C3_ReaderSeesOneActive ==
  [][ \A c \in CallIds, a \in CallIds :
        ( /\ IsRead(calls[c]) /\ calls[c].pc = "select" /\ calls'[c].pc = "done"
          /\ IsActivation(calls[a]) /\ calls[a].pc = "promote"
          /\ calls[a].user = calls[c].user
          /\ calls[a].target \in RowsOf(user_profiles, calls[a].user) )
        => calls'[c].seen = 1 ]_vars

RowSansTime(row) ==
  [user_id |-> row.user_id, name |-> row.name, handle |-> row.handle, is_active |-> row.is_active]

\* C9: a save, set-active or delete on behalf of one account that names a
\* profile of another account is rejected, and that profile's row, active
\* flag and links stay as they were.
C9_ForeignProfileUntouched ==
  [][ LET f == calls'[1] IN
        ( /\ f.op \in {"save", "setActive", "delete"} /\ f.pc = "done"
          /\ f.id \in DOMAIN user_profiles
          /\ user_profiles[f.id].user_id # f.user )
        => /\ f.ok = "error"
           /\ f.id \in DOMAIN user_profiles'
           /\ RowSansTime(user_profiles'[f.id]) = RowSansTime(user_profiles[f.id])
           /\ LinksOfProfile(profile_links', f.id) = LinksOfProfile(profile_links, f.id) ]_vars

\* C10: setActiveProfileForUser succeeds only for a profile of the account.
C10_SetActiveOnlyOwn ==
  ( calls[1].op = "setActive" /\ calls[1].pc = "done" /\ calls[1].ok = "ok" )
  => calls[1].id \in ProfilesOf(calls[1].user)

(***************************************************************************)
(* Claims about the autosave editors.                                      *)
(***************************************************************************)
\* C4: when a save request completes and the draft was changed while it was
\* in flight, one further save carrying the draft as it stands at completion
\* follows: it is posted at once or armed on the debounce timer.
C4_FollowUpSaveCarriesLatest ==
  [][ \A r \in PublicProfileEditorPage.requests :
        ( /\ r \notin PublicProfileEditorPage'.requests
          /\ PublicProfileEditorPage.draft # r.draft )
        => \/ \E q \in PublicProfileEditorPage'.requests : q.draft = PublicProfileEditorPage.draft
           \/ \E t \in PublicProfileEditorPage'.autosaveTimer : t.draft = PublicProfileEditorPage.draft
    ]_vars

\* C5: an edit made while a save is in flight is still in the draft once the
\* successful response of that save has been reconciled into it.
C5_EditsSurviveReconcile ==
  [][ \A r \in PublicProfileEditorPage.requests :
        ( /\ r \notin PublicProfileEditorPage'.requests
          /\ PublicProfileEditorPage'.event = "saved"
          /\ PublicProfileEditorPage.draft.rev # r.draft.rev )
        => PublicProfileEditorPage'.draft.rev = PublicProfileEditorPage.draft.rev ]_vars

\* C6: each autosaved draft (profile editor, lead-form builder, vCard editor)
\* has at most one save request in flight at every moment.
C6_OneSaveInFlight ==
  /\ Cardinality(PublicProfileEditorPage.requests) <= 1
  /\ Cardinality(LeadFormBuilder.requests) <= 1
  /\ Cardinality(VCardContent.requests) <= 1

\* C7: the draft versions that arrive at the server arrive in edit order: no
\* older version after a newer one.
C7_ServerSeesEditOrder ==
  \A i \in 1..Len(VCardContent.received), j \in 1..Len(VCardContent.received) :
    i < j => VCardContent.received[i].rev <= VCardContent.received[j].rev

\* C8: after a save request has failed, no save request is posted until the
\* user retries or edits again.
C8_NoAutomaticRetry ==
  [][ PublicProfileEditorPage'.quiet
        => Len(PublicProfileEditorPage'.posted) = Len(PublicProfileEditorPage.posted) ]_vars

(***************************************************************************)
(* C11: in every state of an autosaving editor the isDirty it exposes      *)
(* equals "the draft differs from the last saved snapshot"; so it is false *)
(* right after a successful save with no edit since, and true after an     *)
(* edit that changes the draft.  Stated for the profile editor             *)
(* (draft against savedProfile) and the vCard editor (fields against       *)
(* lastSavedRef).                                                          *)
(***************************************************************************)
C11_IsDirtyMatchesSnapshot ==
  /\ isDirty(PublicProfileEditorPage)
       = (PublicProfileEditorPage.draft # PublicProfileEditorPage.savedProfile)
  /\ VCardContent.isDirty = (VCardContent.fields # VCardContent.lastSavedRef)

(***************************************************************************)
(* C12: from a clean draft with no save in flight, three edits each made   *)
(* before the debounce timer of the one before fired result in exactly one *)
(* save request, and it carries the draft after the third edit.  While no  *)
(* request has been sent the one armed timer holds that draft; once the    *)
(* first request was sent after the third edit it stays the only one.      *)
(***************************************************************************)
C12_ThreeEditsOneSave ==
  LET e == PublicProfileEditorPage IN
  e.edits = 3 =>
    /\ e.posted = << >> => e.autosaveTimer = {[draft |-> Typed(3), saving |-> FALSE]}
    /\ (e.posted # << >> /\ e.posted[1].rev = 3) => e.posted = <<Typed(3)>>

(***************************************************************************)
(* C13: when a save fails the local draft is left as it is, edits made     *)
(* while the request was in flight included, and the editor shows the      *)
(* error (until the next save attempt starts and clears it); a manual      *)
(* retry sends the draft as it is when retry is pressed, not the draft of  *)
(* the failed request.                                                     *)
(***************************************************************************)
C13_FailedSaveKeepsDraft ==
  [][ LET e == PublicProfileEditorPage
          f == PublicProfileEditorPage'
      IN /\ (f # e /\ f.event = "failed") =>
              /\ f.draft = e.draft
              /\ f.savedProfile = e.savedProfile
              /\ f.saveError \/ f.saving
         /\ (f # e /\ f.event = "retry") =>
              /\ f.draft = e.draft
              /\ f.posted = Append(e.posted, e.draft) ]_vars

\* a retry has sent a draft that differs from the one whose save failed
C13_RetrySentLaterDraft ==
  LET e == PublicProfileEditorPage IN
  /\ e.event = "retry"
  /\ Len(e.posted) >= 2
  /\ e.posted[Len(e.posted)] = e.draft
  /\ e.posted[1] # e.draft

(***************************************************************************)
(* C14: a saved handle is stored trimmed and lower-cased, and after any    *)
(* sequence of saves no two profiles of one account have the same handle   *)
(* (a save that would give a second profile of the account an equal        *)
(* normalised handle is rejected as a duplicate).                          *)
(***************************************************************************)
StoredHandles(u) ==
  IF SUPABASE_ENABLED
    THEN [id \in RowsOf(user_profiles, u) |-> user_profiles[id].handle]
    ELSE [id \in ProfilesOf(u) |->
            memoryProfiles[u][IndexOfId(memoryProfiles[u], id)].handle]

C14_HandlesNormalisedAndUnique ==
  \A u \in Users :
    LET h == StoredHandles(u) IN
    /\ \A p \in DOMAIN h : h[p] # << >> /\ h[p] = normaliseHandle(h[p])
    /\ \A p, q \in DOMAIN h : p # q => h[p] # h[q]

(***************************************************************************)
(* C15: after a save succeeds with link list L, loading the profile        *)
(* returns exactly the links of L in the order of L (order index = array   *)
(* position), whatever links the profile had before, and none of the       *)
(* earlier links remains.  As stated, with the titles (and urls) of L      *)
(* returned unchanged:                                                     *)
(***************************************************************************)
C15_LoadReturnsLinksAsSent ==
  LET f == calls[1]
      L == f.payload.links
      loaded == LoadedLinks(f.pid)
  IN (f.op = "save" /\ f.ok = "ok") =>
       /\ Len(loaded) = Len(L)
       /\ \A i \in 1..Len(L) : loaded[i].order_index = i - 1 /\ loaded[i].title = L[i].title

\* what the code stores for a title: trimmed, and a default when that is empty
\* ("Link" on Supabase, "Link <position>" in memory)
StoredTitle(t, i) ==
  IF Trim(t) # << >> THEN Trim(t)
  ELSE IF SUPABASE_ENABLED THEN <<"L">> ELSE <<"L", Digit(i)>>

\* C15 as the code has it: the same, with each title (and url) returned
\* trimmed, and replaced by the default when it is blank.
C15_LoadReturnsLinksTrimmed ==
  LET f == calls[1]
      L == f.payload.links
      loaded == LoadedLinks(f.pid)
  IN (f.op = "save" /\ f.ok = "ok") =>
       /\ Len(loaded) = Len(L)
       /\ \A i \in 1..Len(L) :
            loaded[i].order_index = i - 1 /\ loaded[i].title = StoredTitle(L[i].title, i)
       /\ SUPABASE_ENABLED => Cardinality(LinksOfProfile(profile_links, f.pid)) = Len(L)

\* a two-link list with a padded title has replaced links saved earlier
C15_PaddedListReplacedOlder ==
  LET f == calls[1] IN
  /\ f.op = "save" /\ f.ok = "ok"
  /\ Len(f.payload.links) = 2
  /\ f.payload.links[1].title = <<" ", "t">>
  /\ f.payload.links[2].title = <<"u">>
  /\ nextLinkId = 4
  /\ Len(LoadedLinks(f.pid)) = 2

(***************************************************************************)
(* C16: when an account satisfies the single-active invariant and a save   *)
(* creates a profile, the new profile is active when the call returns      *)
(* exactly if it is the account's first profile or the payload asked for   *)
(* active; when the payload asked for active, every other profile of the   *)
(* account is then inactive; otherwise the active profile stays as it was. *)
(***************************************************************************)
SingleActive(u) == ProfilesOf(u) # {} => Cardinality(ActiveProfilesOf(u)) = 1

C16_NewProfileActivation ==
  [][ \A u \in Users :
      LET f == calls'[1]
      IN (f.user = u /\ f.op = "save" /\ f.ok = "ok" /\ f.payload.id = NoId
            /\ nextId' = nextId + 1 /\ SingleActive(u)) =>
           /\ (f.pid \in ActiveProfilesOf(u)') = (ProfilesOf(u) = {} \/ f.payload.active)
           /\ f.ret.is_active = (f.pid \in ActiveProfilesOf(u)')
           /\ f.payload.active => ActiveProfilesOf(u)' = {f.pid}
           /\ (~f.payload.active /\ ProfilesOf(u) # {}) =>
                ActiveProfilesOf(u)' = ActiveProfilesOf(u) ]_vars

\* a second profile was created with active = true and took over from the first
C16_CreatedActiveTookOver ==
  LET f == calls[1] IN
  /\ f.op = "save" /\ f.ok = "ok" /\ f.payload.id = NoId /\ f.payload.active
  /\ f.pid = 2
  /\ ProfilesOf(f.user) = {1, 2}
  /\ ActiveProfilesOf(f.user) = {2}

(***************************************************************************)
(* C17: deleting the active profile of an account while others remain      *)
(* makes active the remaining profile with the greatest updated_at;        *)
(* deleting a profile while another one is active leaves the active        *)
(* profile as it is.  (The account satisfies the single-active invariant   *)
(* before the delete.)                                                     *)
(***************************************************************************)
C17_DeletePromotesMostRecent ==
  [][ LET f == calls'[1]
          before == ProfilesOf("A")
          rest == before \ {f.id}
      IN (f.op = "delete" /\ f.ok = "ok" /\ f.id \in before /\ rest # {}
            /\ Cardinality(ActiveProfilesOf("A")) = 1) =>
           IF f.id \in ActiveProfilesOf("A")
             THEN \E q \in rest :
                    /\ ActiveProfilesOf("A")' = {q}
                    /\ \A r \in rest : UpdatedAtOf("A", r) <= UpdatedAtOf("A", q)
             ELSE ActiveProfilesOf("A")' = ActiveProfilesOf("A") ]_vars

(***************************************************************************)
(* C18: when an activation has stopped between demoting every profile and  *)
(* promoting one, so that the account has profiles and none is active, the *)
(* next read (list profiles, get active) or write (save, delete,           *)
(* set-active) served for that account repairs it: when that call has      *)
(* returned, exactly one of the account's profiles is active.              *)
(***************************************************************************)
C18_NextCallRepairs ==
  [][ \A u \in Users :
      LET f == calls'[1]
      IN (ProfilesOf(u) # {} /\ ActiveProfilesOf(u) = {}
            /\ f.user = u /\ f.ok = "ok" /\ ProfilesOf(u)' # {}
            /\ <<user_profiles, calls>>' # <<user_profiles, calls>>) =>
           Cardinality(ActiveProfilesOf(u)') = 1 ]_vars

(***************************************************************************)
(* C19: the ensure-has-active repair is idempotent: run twice in a row on  *)
(* any store state (no profile or some; none, one or several active), it   *)
(* leaves after the second run the active flags it left after the first.   *)
(***************************************************************************)
C19_RepairIdempotent ==
  [][ (calls[1].op = "ensure" /\ calls'[1].op = "ensure") =>
        /\ ActiveProfilesOf("A")' = ActiveProfilesOf("A")
        /\ ProfilesOf("A")' = ProfilesOf("A") ]_vars

\* a second run has followed a run that found three profiles, not exactly
\* one of them active, and left exactly one active
C19_SecondRunAfterRepair ==
  /\ calls[2].op = "ensure" /\ calls[2].ok = "ok"
  /\ calls[2].total = 3 /\ calls[2].seen # 1
  /\ calls[1].op = "ensure" /\ calls[1].ok = "ok" /\ calls[1].seen = 1
  /\ Cardinality(ActiveProfilesOf("A")) = 1

(***************************************************************************)
(* C20: a save whose name or handle is empty or only whitespace fails with *)
(* a validation error before any persistence step: in every reachable      *)
(* store state, whoever calls it and whatever id, links and active flag    *)
(* the payload carries, the call ends in that error and the account        *)
(* records, every profile and every link are what they were before.        *)
(***************************************************************************)
InvalidPayloads ==
  { p \in [id : {NoId} \cup KnownOrGhost, name : RawNames, handle : RawHandles,
           links : PayloadLinks, active : BOOLEAN] :
      Trim(p.name) = << >> \/ Trim(p.handle) = << >> }

C20_InvalidSaveChangesNothing ==
  \A u \in Users, p \in InvalidPayloads :
    LET outcomes == RunCall(SUPABASE_ENABLED, World,
                            Capped(NewCall("save", u, p.id, p), MaxProfiles, MaxLinkId))
    IN /\ outcomes # {}
       /\ \A o \in outcomes :
            /\ o.f.ok = "error"
            /\ o.f.err = IF Trim(p.name) = << >> THEN "Profile name is required"
                         ELSE "Handle is required"
            /\ o.w = World

\* an invalid save has been answered while the account had a profile and a link
C20_InvalidSaveServed ==
  LET f == calls[1] IN
  /\ f.op = "save" /\ f.ok = "error" /\ f.err = "Handle is required"
  /\ ProfilesOf(f.user) # {}
  /\ \/ profile_links # {}
     \/ \E i \in 1..Len(memoryProfiles[f.user]) : memoryProfiles[f.user][i].links # << >>

(***************************************************************************)
(* C21: a save keeps link identifiers stable across the full replace:      *)
(* every payload link that carries an id is stored under that id and is    *)
(* returned with it by the save; only links sent without an id get a       *)
(* newly generated one.                                                    *)
(***************************************************************************)
C21_LinkIdsKept ==
  LET f == calls[1]
      L == f.payload.links
      loaded == LoadedLinks(f.pid)
  IN (f.op = "save" /\ f.ok = "ok") =>
       \A i \in 1..Len(L) :
         L[i].id # NoId =>
           /\ Len(loaded) >= i /\ loaded[i].id = L[i].id
           /\ Len(f.ret.links) >= i /\ f.ret.links[i].id = L[i].id

(***************************************************************************)
(* The profile editor's links through a save: the draft's links carry the  *)
(* UI-only fields icon, color and visible; handleSave sends id and title   *)
(* of each link, the store answers with its rows, and the editor maps the  *)
(* answer and merges the UI-only fields back by link id.  Links made in    *)
(* the editor carry a client id (link-<random>), written here as a         *)
(* negative number.                                                        *)
(***************************************************************************)
MaxDraftLinks == 2

\* mapProfile on the links of a response: icon from guessIcon(title, url),
\* color of that icon in ICON_OPTIONS, visible from is_active (every row is
\* inserted with is_active: true).  The url of every link here starts with
\* "https://", so guessIcon answers "globe" unless the title names instagram.
mapProfileLinks(record) ==
  [i \in 1..Len(record.links) |->
     LET link == record.links[i]
         icon == IF link.title = <<"i">> THEN "instagram" ELSE "globe"
     IN [id |-> link.id, label |-> link.title, icon |-> icon,
         color |-> IF icon = "instagram" THEN "#9B7CF5" ELSE "#55D88A",
         visible |-> TRUE]]

\* uiById.get(link.id): the Map keeps the last entry of an id
mergeProfileUi(next, previous) ==
  [i \in 1..Len(next) |->
     LET hits == { j \in 1..Len(previous) : previous[j].id = next[i].id }
     IN IF hits = {} THEN next[i]
        ELSE LET j == CHOOSE k \in hits : \A h \in hits : h <= k
             IN [next[i] EXCEPT !.icon = previous[j].icon, !.color = previous[j].color,
                                !.visible = previous[j].visible]]

LinkEditorNext ==
  LET e == PublicProfileEditorPage IN
  \/ \* createLink, appended to the draft
     /\ Len(e.links) < MaxDraftLinks
     /\ \E label \in { <<"t">>, <<"i">> } :
          PublicProfileEditorPage' =
            [e EXCEPT !.links = Append(@, [id |-> 0 - (Len(e.links) + 1), label |-> label,
                                           icon |-> "instagram", color |-> "#9B7CF5",
                                           visible |-> TRUE]),
                      !.event = "edited"]
     /\ UNCHANGED <<storeVars, LeadFormBuilder, VCardContent, PublicLeadForm>>
  \/ \* the icon picker, the color swatches and the visibility switch of a link
     /\ \E i \in 1..Len(e.links), icon \in {"instagram", "globe", "link"},
           color \in {"#9B7CF5", "#55D88A", "#6AB7FF"}, visible \in BOOLEAN :
          /\ <<icon, color, visible>> # <<e.links[i].icon, e.links[i].color, e.links[i].visible>>
          /\ PublicProfileEditorPage' =
               [e EXCEPT !.links[i] = [@ EXCEPT !.icon = icon, !.color = color,
                                                !.visible = visible],
                         !.event = "edited"]
     /\ UNCHANGED <<storeVars, LeadFormBuilder, VCardContent, PublicLeadForm>>
  \/ \* handleSave and its response
     /\ e.event = "edited"
     /\ LET payload == [id |-> e.id, name |-> <<"n">>, handle |-> <<"a">>,
                        links |-> [i \in 1..Len(e.links) |->
                                     [id |-> e.links[i].id, title |-> e.links[i].label]],
                        active |-> FALSE]
        IN \E o \in RunCall(SUPABASE_ENABLED, World,
                            Capped(NewCall("save", "A", e.id, payload), 1, LinkIdCap)) :
             /\ SetWorld(o.w)
             /\ calls' = [calls EXCEPT ![1] = Response(o.f)]
             /\ PublicProfileEditorPage' =
                  IF o.f.ok = "ok"
                    THEN [id |-> o.f.ret.id,
                          links |-> mergeProfileUi(mapProfileLinks(o.f.ret), e.links),
                          event |-> "saved"]
                    ELSE [e EXCEPT !.event = "failed"]
             /\ UNCHANGED <<SUPABASE_ENABLED, LeadFormBuilder, VCardContent, PublicLeadForm>>

LinkEditorInit ==
  /\ SUPABASE_ENABLED \in BOOLEAN
  /\ user_profiles = << >>
  /\ profile_links = {}
  /\ memoryProfiles = [u \in Users |-> << >>]
  /\ memoryAccounts = [u \in Users |-> NoAccount]
  /\ nextId = 1
  /\ nextLinkId = 1
  /\ calls = [c \in CallIds |-> Idle]
  /\ PublicProfileEditorPage = [id |-> NoId, links |-> << >>, event |-> "edited"]
  /\ LeadFormBuilder = BuilderLoaded
  /\ VCardContent = VCardLoaded
  /\ PublicLeadForm = LeadFormMounted

SpecLinkEditor == LinkEditorInit /\ [][LinkEditorNext]_vars

\* C22: after a successful save in the profile editor, every link of the
\* draft that was sent is in the resulting draft, in its place, with the icon,
\* the color and the visibility it had before the save.
C22_SavedLinksKeepUi ==
  [][ (PublicProfileEditorPage.event = "edited" /\ PublicProfileEditorPage'.event = "saved") =>
        \A i \in 1..Len(PublicProfileEditorPage.links) :
          /\ Len(PublicProfileEditorPage'.links) >= i
          /\ PublicProfileEditorPage'.links[i].icon = PublicProfileEditorPage.links[i].icon
          /\ PublicProfileEditorPage'.links[i].color = PublicProfileEditorPage.links[i].color
          /\ PublicProfileEditorPage'.links[i].visible = PublicProfileEditorPage.links[i].visible ]_vars

(***************************************************************************)
(* Claims about the lead-form builder.                                     *)
(***************************************************************************)
\* C23: the field keys of every persist request are pairwise distinct, and
\* two fields that carry the same label and no key get the key of the label
\* and that key followed by _1.
C23_PersistKeysDistinct ==
  /\ \A r \in LeadFormBuilder.requests :
       \A i, j \in 1..Len(r.ordered) : i # j => r.ordered[i].key # r.ordered[j].key
  /\ LET twice == ensureUniqueKeys(
                    [i \in 1..2 |-> ensureFieldDefaults([key |-> << >>, label |-> <<"A">>])])
     IN twice[1].key = <<"a">> /\ twice[2].key = <<"a", "_", "1">>

C23_TwoFieldsSameStemSent ==
  \E r \in LeadFormBuilder.requests :
    /\ Len(r.ordered) = 2
    /\ r.ordered[1].key = <<"a">>
    /\ r.ordered[2].key = <<"a", "_", "1">>

LeadFormNext ==
  LET p == PublicLeadForm IN
  /\ UNCHANGED <<storeVars, PublicProfileEditorPage, LeadFormBuilder, VCardContent>>
  /\ \/ \* the two loading effects: lead_form_fields and lead_form_settings
        /\ ~p.loaded
        /\ \E required, consentEnabled, redirectEnabled \in BOOLEAN :
             PublicLeadForm' = [p EXCEPT !.required = required,
                                         !.consentEnabled = consentEnabled,
                                         !.redirectEnabled = redirectEnabled, !.loaded = TRUE]
     \/ \* setAnswer, setConsentChecked, setTrap
        /\ p.submits < MaxSubmits
        /\ \E required, nameAndEmail, consentChecked \in BOOLEAN,
              trap \in { << >>, <<"x">>, <<" ">> } :
             /\ PublicLeadForm' =
                  [p EXCEPT !.answers = [required |-> required, nameAndEmail |-> nameAndEmail],
                            !.consentChecked = consentChecked, !.trap = trap]
             /\ PublicLeadForm' # p
     \/ /\ p.submits < MaxSubmits
        /\ \E insertError, fallbackOk \in BOOLEAN :
             PublicLeadForm' = onSubmit(p, insertError, fallbackOk)

SpecLeadForm == StoreInit(TRUE) /\ [][LeadFormNext]_vars

(***************************************************************************)
(* Claims about the public lead form.                                      *)
(***************************************************************************)
\* C24: a submission whose honeypot input is not empty is answered with the
\* success toast, inserts no lead and sends no notification.
C24_HoneypotSilentlyDiscarded ==
  [][ (PublicLeadForm'.submits = PublicLeadForm.submits + 1 /\ PublicLeadForm.trap # << >>) =>
        /\ PublicLeadForm'.toast = "Thanks!"
        /\ PublicLeadForm'.leads = PublicLeadForm.leads
        /\ PublicLeadForm'.notified = PublicLeadForm.notified ]_vars

(***************************************************************************)
(* Claims about failed calls of the profile store.                         *)
(***************************************************************************)
\* C25: an activation that fails with "Profile not found" leaves the
\* is_active flag of every profile of the account as it was.
C25_FailedActivationKeepsFlags ==
  [][ \A u \in Users :
        ( /\ calls'[1] # calls[1]
          /\ calls'[1].user = u
          /\ IsActivation(calls'[1])
          /\ calls'[1].ok = "error"
          /\ calls'[1].err = "Profile not found" )
        => ActiveProfilesOf(u)' = ActiveProfilesOf(u) ]_vars

\* C26: a save that fails leaves the profile rows, the link rows and the
\* active flags as they were before the call.
C26_FailedSaveChangesNothing ==
  [][ ( /\ calls'[1] # calls[1]
        /\ calls'[1].op = "save"
        /\ calls'[1].ok = "error" )
      => /\ user_profiles' = user_profiles
         /\ profile_links' = profile_links
         /\ memoryProfiles' = memoryProfiles ]_vars

(***************************************************************************)
(* The public page of a handle.  getAccountByHandle reads the table        *)
(* profiles, which this module never writes: its row for the handle, if    *)
(* any, is an input of the lookup (row, the user it belongs to).  Without  *)
(* a row, and without Supabase, the account comes from memoryAccounts.     *)
(* limit(1) without an order returns any of the matching rows.             *)
(***************************************************************************)
getActiveProfileForPublicHandle(handle, row) ==
  LET normalised == normaliseHandle(handle)
      w == World
      known == { u \in Users : memoryAccounts[u] # NoAccount /\ memoryAccounts[u].username = normalised }
      account == IF normalised = << >> THEN {}
                 ELSE IF SUPABASE_ENABLED /\ row \in Users THEN {row}
                 ELSE known
      active(u) == IF SUPABASE_ENABLED
                     THEN { fetchProfileWithLinksById(w, id) : id \in ActiveOf(w.up, u) }
                     ELSE LET S == { i \in 1..Len(w.mem[u]) : w.mem[u][i].is_active }
                          IN IF S = {} THEN {}
                             ELSE { MemoryRet(w.mem[u][CHOOSE i \in S : \A j \in S : i <= j]) }
      byHandle == IF SUPABASE_ENABLED
                    THEN { fetchProfileWithLinksById(w, id) :
                             id \in { i \in DOMAIN w.up : w.up[i].handle = normalised } }
                    ELSE UNION { LET S == { i \in 1..Len(w.mem[u]) : w.mem[u][i].handle = normalised }
                                 IN IF S = {} THEN {}
                                    ELSE { MemoryRet(w.mem[u][CHOOSE i \in S : \A j \in S : i <= j]) }
                                 : u \in Users }
      first == UNION { { [account |-> u, profile |-> p] : p \in active(u) } : u \in account }
  IN IF first # {} THEN first
     ELSE IF byHandle = {} THEN { [account |-> "", profile |-> NoRet] }
     ELSE { [account |-> p.user_id, profile |-> p] : p \in byHandle }

PublicNext ==
  \/ saveProfileForUser
  \/ setActiveProfileForUser
  \/ \E handle \in RawHandles, row \in Users \cup {""} :
       \E r \in getActiveProfileForPublicHandle(handle, row) :
         /\ calls' = [calls EXCEPT ![1] =
                        [NewCall("getPublic", r.account, NoId, EmptyPayload) EXCEPT
                           !.pc = "done", !.ok = "ok", !.ret = r.profile,
                           !.seen = IF r.profile = NoRet THEN 0 ELSE 1]]
         /\ UNCHANGED <<SUPABASE_ENABLED, user_profiles, profile_links, memoryProfiles,
                        memoryAccounts, nextId, nextLinkId, uiVars>>

SpecPublic == ServiceInit /\ [][PublicNext]_vars

\* C27: a profile returned by getActiveProfileForPublicHandle is active and
\* belongs to the account returned with it.
C27_PublicProfileActiveAndOwned ==
  (calls[1].op = "getPublic" /\ calls[1].seen = 1) =>
     /\ calls[1].ret.is_active
     /\ calls[1].ret.user_id = calls[1].user

(***************************************************************************)
(* The lead-form builder when every save is accepted: the user makes at    *)
(* most MaxEdits changes, the debounce timer fires whenever it is armed    *)
(* and every request in flight is answered.  Saves beyond MaxSends are not *)
(* counted any more, so that the builder can go on saving for ever.        *)
(***************************************************************************)
BuilderSystemNext ==
  \/ builderTimerFires
  \/ LET b == LeadFormBuilder IN
     /\ b.posts = MaxSends
     /\ \E t \in b.autosaveTimer :
          BuilderStep(BuilderEffects(b, persist([b EXCEPT !.autosaveTimer = {},
                                                          !.posts = MaxSends - 1], t.fields), FALSE))
  \/ builderSaveResolved

BuilderLiveNext ==
  \/ handleAddField
  \/ updateField
  \/ moveField
  \/ handleDeleteField
  \/ BuilderSystemNext

SpecBuilderLive ==
  StoreInit(TRUE) /\ [][BuilderLiveNext]_vars /\ WF_vars(BuilderSystemNext)

NoSaveRefused ==
  \A r \in LeadFormBuilder.requests : Upsert(LeadFormBuilder.lead_form_fields, r.ordered).ok

BuilderAtRest ==
  /\ LeadFormBuilder.requests = {}
  /\ LeadFormBuilder.autosaveTimer = {}
  /\ ~LeadFormBuilder.isDirty
  /\ ~LeadFormBuilder.savingRef

\* C28: when the user stops editing and no save is refused, the builder
\* comes to rest and stays there: no request in flight, no timer armed,
\* isDirty false.
C28_BuilderComesToRest == []NoSaveRefused => <>[]BuilderAtRest

C30_UpsertRowsDistinctIds ==
  \A r \in LeadFormBuilder.requests :
    /\ Len(r.ordered) = Len(r.fields)
    /\ \A i, j \in 1..Len(r.ordered) : i # j => r.ordered[i].id # r.ordered[j].id

====
